---------------------------- MODULE Spec2Model ----------------------------
(***************************************************************************)
(* Model of gbuf.RingBuffer[T] (src/ringbuffer.go, lines 1-437).           *)
(*                                                                         *)
(* Go slices are modelled as TLA+ sequences; a Go index i is the sequence  *)
(* index i + 1, and the helpers Slice and Copy take Go (0-based, half-open)*)
(* bounds so that the operators below read like the source.  A run-time    *)
(* panic (slice bounds / index out of range) is an explicit outcome: the   *)
(* operator returns panic |-> TRUE with the buffer as it was when the      *)
(* panic was raised, and the program takes no further step.                *)
(*                                                                         *)
(* RingBuffer is generic in T and never inspects an item, so the items     *)
(* written are labelled by their position in the input stream, modulo      *)
(* MaxVal (1..MaxVal); 0 is the zero value of T.                           *)
(***************************************************************************)
EXTENDS Integers, Sequences, FiniteSets, TLC

\* ---- bounds -------------------------------------------------------------
MaxCap == 3      \* capacities 1..MaxCap are constructed
MaxExtra == 1    \* inputs and destinations are up to MaxCap + MaxExtra long
MaxVal == 4      \* item labels cycle through 1..MaxVal
MaxSpare == 1    \* a destination slice has up to MaxSpare items of cap beyond len
MaxNeg == 1      \* sizes 0 - MaxNeg .. MaxCap are asked of NewRingBuffer
MaxFail == 2     \* a callback fails on its invocation 1..MaxFail of a call, or never
MaxLaps == 2     \* a pipeline is fed up to MaxLaps * MaxCap + MaxExtra items at once
MaxNegCall == 2  \* a producer or consumer reports a negative count on call 1..MaxNegCall
MaxRoom == 4     \* an underlying writer accepts 0..MaxRoom items before it fails

\* ---- program constants --------------------------------------------------
defaultBufferSize == 256

Zero == 0

VARIABLES
  reqSize,  \* the size NewRingBuffer was called with
  write,    \* RingBuffer.write
  read,     \* RingBuffer.read
  items,    \* RingBuffer.items
  ret,      \* the last call: arguments, results, panic, and what it found before it ran
  model,    \* reference bounded FIFO: the items written, not read and not evicted
  seq,      \* label of the next item of the input stream, minus one
  phase,    \* "new", "writes" (only Write so far), "items" (only WriteItem so far), "mixed"
  total,    \* number of items written since construction, while phase is not "mixed"
  filter,   \* a RingFilter of the same size: its write, read and items
  down,     \* the RingFilter that the callback of filter writes to, in a pipeline
  writer,   \* a gbufio.Writer: its err, buf, n and wr (the underlying writer)
  reader    \* a gbufio.Reader: its buf, r, w, err, lastItem and rd (the underlying reader)

vars == <<reqSize, write, read, items, ret, model, seq, phase, total, filter, down,
          writer, reader>>

\* ---- Go slice helpers ---------------------------------------------------
Min(a, b) == IF a < b THEN a ELSE b

\* s[lo:hi]
Slice(s, lo, hi) == SubSeq(s, lo + 1, hi)

\* copy(dst[lo:hi], src): the updated dst and the number of items copied
Copy(dst, lo, hi, src) ==
  LET n == Min(hi - lo, Len(src))
  IN  [s |-> [i \in 1..Len(dst) |-> IF lo < i /\ i <= lo + n THEN src[i - lo] ELSE dst[i]],
       n |-> n]

\* make([]T, n)
Make(n) == [i \in 1..n |-> Zero]

\* the next ln items of the input stream
Stream(from, ln) == [i \in 1..ln |-> ((from + i - 1) % MaxVal) + 1]

\* the last n items of s (all of s when it is shorter)
LastN(s, n) == IF Len(s) <= n THEN s ELSE SubSeq(s, Len(s) - n + 1, Len(s))

\* ---- RingBuffer ---------------------------------------------------------
Self == [write |-> write, read |-> read, items |-> items]

\* NewRingBuffer without the default for a size of zero
NewRingBuffer_ZeroSize(sz) ==
  [write |-> 0, read |-> 0,
   items |-> Make(IF sz < 0 THEN defaultBufferSize ELSE sz)]

NewRingBuffer(sz) ==
  [write |-> 0, read |-> 0,
   items |-> Make(IF sz <= 0 THEN defaultBufferSize ELSE sz)]

Cap(r) == Len(r.items)

BufLen(r) ==
  IF r.read < r.write
  THEN r.write - r.read
  ELSE Len(r.items) - (r.read - r.write)

writeWithinBounds(r, p, end) ==
  LET c == Copy(r.items, r.write, end, p)
  IN  [buf |-> [r EXCEPT !.items = c.s, !.write = end], n |-> c.n, err |-> "nil"]

writeWrapped(r, p, end0) ==
  LET end == end0 % Len(r.items)
      c1  == Copy(r.items, r.write, Len(r.items), p)
      c2  == Copy(c1.s, 0, end, Slice(p, c1.n, Len(p)))
  IN  [buf |-> [write |-> end,
                read  |-> IF end > r.read THEN end ELSE r.read,
                items |-> c2.s],
       n |-> c1.n + c2.n, err |-> "nil"]

writeWithinCapacity(r, p) ==
  LET end == r.write + Len(p)
  IN  IF end <= Len(r.items)
      THEN writeWithinBounds(r, p, end)
      ELSE writeWrapped(r, p, end)

RingWrite(r, p) ==
  LET ln == Len(p)
      ringLn == Len(r.items)
  IN  IF ln < ringLn
      THEN writeWithinCapacity(r, p)
      ELSE [buf |-> [r EXCEPT !.items = Copy(r.items, 0, ringLn, Slice(p, ln - ringLn, ln)).s,
                              !.read = r.write],
            n |-> ringLn, err |-> "nil"]

RingWriteItem(r, item) ==
  LET pos == (r.write + 1) % Len(r.items)
  IN  [buf |-> [write |-> pos,
                read  |-> IF r.write = r.read THEN pos ELSE r.read,
                items |-> [r.items EXCEPT ![pos + 1] = item]],
       err |-> "nil"]

\* p is the destination's backing array (cap(p) items), ln is len(p)
RingRead(r, p, ln) ==
  LET ringLn == BufLen(r)
      N == Len(r.items)
  IN  IF r.read >= r.write
      THEN LET size == N - r.read
           IN  IF size > Len(p)
               THEN [buf |-> r, n |-> 0, err |-> "nil", p |-> p, panic |-> TRUE]
               ELSE LET c1 == Copy(p, 0, size, Slice(r.items, r.read, N))
                        r1 == [r EXCEPT !.read = 0]
                    IN  IF c1.n >= ln
                        THEN [buf |-> r1, n |-> c1.n, err |-> "nil", p |-> c1.s, panic |-> FALSE]
                        ELSE IF c1.n + r.write > Len(p)
                             THEN [buf |-> r1, n |-> c1.n, err |-> "nil", p |-> c1.s, panic |-> TRUE]
                             ELSE LET c2 == Copy(c1.s, c1.n, c1.n + r.write, Slice(r.items, 0, r.write))
                                  IN  [buf |-> [r EXCEPT !.read = r.write % N],
                                       n |-> c1.n + c2.n, err |-> "nil", p |-> c2.s, panic |-> FALSE]
      ELSE IF ringLn > Len(p) \/ r.read < 0
           THEN [buf |-> r, n |-> 0, err |-> "nil", p |-> p, panic |-> TRUE]
           ELSE LET c == Copy(p, 0, ringLn, Slice(r.items, r.read, r.write))
                    n == IF ln < c.n THEN ln ELSE c.n
                IN  [buf |-> [r EXCEPT !.read = r.read + n],
                     n |-> n, err |-> "nil", p |-> c.s, panic |-> FALSE]

RingValue(r) ==
  IF r.read < r.write
  THEN [buf |-> [r EXCEPT !.read = r.write],
        out |-> Copy(Make(r.write - r.read), 0, r.write - r.read, Slice(r.items, r.read, r.write)).s]
  ELSE LET N  == Len(r.items)
           c1 == Copy(Make(N), 0, r.read, Slice(r.items, r.read, N))
           c2 == Copy(c1.s, r.read, N, Slice(r.items, 0, r.read))
       IN  [buf |-> r, out |-> c2.s]

RingReset(r) ==
  [write |-> 0, read |-> 0, items |-> [i \in 1..Len(r.items) |-> Zero]]

RingTruncate(r, n) == RingReset(r)

RingReadItem(r) ==
  IF r.read >= Len(r.items)
  THEN [buf |-> r, item |-> Zero, err |-> "nil", panic |-> TRUE]
  ELSE [buf |-> [r EXCEPT !.read = (r.read + 1) % Len(r.items)],
        item |-> r.items[r.read + 1], err |-> "nil", panic |-> FALSE]

\* Next(n): both paths return the named result items, which is never assigned (nil)
RingNext(r, n) ==
  IF n = 0
  THEN [buf |-> r, items |-> <<>>]
  ELSE [buf |-> r, items |-> <<>>]

RingUnreadItem(r) == [buf |-> r, err |-> "nil"]

\* ReadItems(delim): delim is never called; line is never assigned (nil)
RingReadItems(r, delim) ==
  IF r.read = r.write
  THEN [buf |-> r, line |-> <<>>, err |-> "EOF"]
  ELSE [buf |-> r, line |-> <<>>, err |-> "nil"]

\* Seek(offset, whence): both arguments are discarded; abs is never assigned (0)
RingSeek(r, offset, whence) == [buf |-> r, abs |-> 0, err |-> "nil"]

\* a % b of Go, which takes the sign of a
GoMod(a, b) == IF a >= 0 THEN a % b ELSE 0 - ((0 - a) % b)

\* one call of the producer's Read(p) on a destination of plen slots.  The producer b
\* holds the items d, delivers at most b.chunk of them per call, ends with the error
\* b.end, handed over with the last items when b.tail and by a call of its own
\* otherwise, and reports the count -1 on its call number b.neg (never when 0)
ProducerRead(plen, d, b, calls) ==
  LET k == Min(b.chunk, Min(plen, Len(d)))
  IN  IF b.neg = calls + 1 THEN [num |-> 0 - 1, err |-> "nil"]
      ELSE IF Len(d) = 0 THEN [num |-> 0, err |-> b.end]
      ELSE IF b.tail /\ k = Len(d) THEN [num |-> k, err |-> b.end]
      ELSE [num |-> k, err |-> "nil"]

readFromErr_KeepEOF(err) == err

\* what ReadFrom returns for the error that ended its loop
readFromErr(err) == IF err = "EOF" THEN "nil" ELSE err

\* the loop of ReadFrom, the producer b holding d; nums collects the num of every
\* call of b.Read
RECURSIVE readFromLoop(_, _, _, _, _)
readFromLoop(r, d, b, n, nums) ==
  LET N == Len(r.items)
      pr == ProducerRead(N - r.write, d, b, Len(nums))
      k == IF pr.num > 0 THEN pr.num ELSE 0
      filled == [r EXCEPT !.items = Copy(r.items, r.write, r.write + k, d).s]
      moved == [filled EXCEPT !.write = GoMod(r.write + pr.num, N)]
      all == Append(nums, pr.num)
  IN  IF r.write < 0
      THEN [buf |-> r, n |-> n, err |-> "slice bounds out of range", nums |-> nums,
            panic |-> TRUE]
      ELSE IF n < 0
      THEN [buf |-> filled, n |-> n, err |-> "errNegativeRead", nums |-> all,
            panic |-> TRUE]
      ELSE IF pr.err # "nil"
      THEN [buf |-> moved, n |-> n + pr.num, err |-> readFromErr(pr.err), nums |-> all,
            panic |-> FALSE]
      ELSE readFromLoop(moved, SubSeq(d, k + 1, Len(d)), b, n + pr.num, all)

RingReadFrom(r, d, b) == readFromLoop(r, d, b, 0, <<>>)

\* one call of the consumer's Write(p).  The consumer c accepts c.room items in all,
\* of which it has taken some; it returns c.short ("nil" for none) when it accepts
\* fewer items than offered, and reports the count -1 on its call number c.neg (never
\* when 0)
ConsumerWrite(p, c, taken, calls) ==
  LET k == Min(Len(p), c.room - taken)
  IN  IF c.neg = calls + 1 THEN [num |-> 0 - 1, err |-> "nil"]
      ELSE IF k < Len(p) THEN [num |-> k, err |-> c.short]
      ELSE [num |-> k, err |-> "nil"]

\* what WriteTo returns for the error of a consumer call
writeToErr(err) == IF err = "EOF" THEN "nil" ELSE err

\* one case body of WriteTo: r.items[r.read:hi] is offered to the consumer c; st holds n,
\* the items pushed and the number of consumer calls so far.  done says that the body
\* returned or panicked
writeToCase(r, hi, c, st) ==
  IF r.read < 0 \/ r.read > hi
  THEN [buf |-> r, n |-> st.n, err |-> "slice bounds out of range",
        pushed |-> st.pushed, calls |-> st.calls, panic |-> TRUE, done |-> TRUE]
  ELSE LET p == Slice(r.items, r.read, hi)
           w == ConsumerWrite(p, c, Len(st.pushed), st.calls)
           k == IF w.num > 0 THEN w.num ELSE 0
           pushed == st.pushed \o SubSeq(p, 1, k)
           moved == [r EXCEPT !.read = GoMod(r.read + w.num, Len(r.items))]
       IN  IF st.n < 0
           THEN [buf |-> r, n |-> st.n, err |-> "errNegativeRead", pushed |-> pushed,
                 calls |-> st.calls + 1, panic |-> TRUE, done |-> TRUE]
           ELSE [buf |-> moved, n |-> st.n + w.num, err |-> writeToErr(w.err),
                 pushed |-> pushed, calls |-> st.calls + 1, panic |-> FALSE,
                 done |-> w.err # "nil"]

RingWriteTo(r, c) ==
  LET st0 == [n |-> 0, pushed |-> <<>>, calls |-> 0]
  IN  IF r.read >= r.write
      THEN LET a == writeToCase(r, Len(r.items), c, st0)
           IN  IF a.done THEN a ELSE writeToCase(a.buf, a.buf.write, c, a)
      ELSE writeToCase(r, r.write, c, st0)

\* ---- RingFilter (src/ringfilter.go, lines 150-471) ------------------------
\* the callback fn is modelled by what it is given and what it returns: fnErr is the
\* error of its invocation number idx within a call, for a callback that fails on its
\* invocation number fail (never when 0); a nil callback is unimplementedFilter, which
\* never fails
fnErr(fail, idx) == IF fail = idx THEN "ErrFilter" ELSE "nil"

NewRingFilter(sz) ==
  [write |-> 0, read |-> 0,
   items |-> Make(IF sz <= 0 THEN defaultBufferSize ELSE sz)]

\* the write helpers return the buffer, n, err and segs, the segments handed to the
\* callback in the order of its invocations
filterWriteWithinBounds_NoFn(r, p, end, fail) ==
  LET c == Copy(r.items, r.write, end, p)
  IN  [buf |-> [r EXCEPT !.items = c.s, !.write = end],
       n |-> c.n, err |-> "nil", segs |-> <<>>]

filterWriteWithinBounds(r, p, end, fail) ==
  LET c == Copy(r.items, r.write, end, p)
      seg == Slice(c.s, r.write, end)
  IN  [buf |-> [r EXCEPT !.items = c.s, !.write = end],
       n |-> c.n, err |-> fnErr(fail, 1), segs |-> <<seg>>]

filterWriteWrapped(r, p, end0, fail) ==
  LET N == Len(r.items)
      end == end0 % N
      c1 == Copy(r.items, r.write, N, p)
      seg1 == Slice(c1.s, r.write, N)
      c2 == Copy(c1.s, 0, end, SubSeq(p, c1.n + 1, Len(p)))
      seg2 == Slice(c2.s, 0, end)
      copied == [r EXCEPT !.items = c2.s]
  IN  IF fnErr(fail, 1) # "nil"
      THEN [buf |-> copied, n |-> c1.n + c2.n, err |-> fnErr(fail, 1), segs |-> <<seg1>>]
      ELSE [buf |-> [copied EXCEPT !.write = end,
                                   !.read = IF end > r.read THEN end ELSE r.read],
            n |-> c1.n + c2.n, err |-> fnErr(fail, 2), segs |-> <<seg1, seg2>>]

filterWriteWithinCapacity(r, p, fail) ==
  LET end == r.write + Len(p)
  IN  IF end <= Len(r.items)
      THEN filterWriteWithinBounds(r, p, end, fail)
      ELSE filterWriteWrapped(r, p, end, fail)

FilterWrite(r, p, fail) ==
  LET ln == Len(p)
      ringLn == Len(r.items)
  IN  IF ln < ringLn
      THEN filterWriteWithinCapacity(r, p, fail)
      ELSE LET b == [r EXCEPT !.items = Copy(r.items, 0, ringLn, Slice(p, ln - ringLn, ln)).s,
                              !.read = r.write]
           IN  IF fnErr(fail, 1) # "nil"
               THEN [buf |-> b, n |-> 0, err |-> fnErr(fail, 1), segs |-> <<p>>]
               ELSE [buf |-> b, n |-> ringLn, err |-> "nil", segs |-> <<p>>]

\* Reset leaves the items where they are
FilterReset(r) == [r EXCEPT !.write = 0, !.read = 0]

\* Len, Read, Value and WriteTo of RingFilter are, statement for statement, those of
\* RingBuffer
FilterLen(r) == BufLen(r)

FilterRead(r, p, ln) == RingRead(r, p, ln)

FilterValue(r) == RingValue(r)

FilterWriteTo(r, c) == RingWriteTo(r, c)

\* the loop of RingFilter.ReadFrom, the producer b holding d; segs holds the segments
\* handed to the callback so far, one for each producer call.  A callback error ends
\* the loop with the error of the producer call before it
RECURSIVE filterReadFromLoop(_, _, _, _, _, _)
filterReadFromLoop(r, d, b, fail, n, segs) ==
  LET N == Len(r.items)
      pr == ProducerRead(N - r.write, d, b, Len(segs))
      k == IF pr.num > 0 THEN pr.num ELSE 0
      filled == [r EXCEPT !.items = Copy(r.items, r.write, r.write + k, d).s]
      seg == Slice(filled.items, r.write, r.write + k)
      all == Append(segs, seg)
      moved == [filled EXCEPT !.write = GoMod(r.write + pr.num, N)]
  IN  IF n < 0
      THEN [buf |-> filled, n |-> n, err |-> "errNegativeRead", segs |-> segs,
            panic |-> TRUE]
      ELSE IF pr.num < 0
      THEN [buf |-> filled, n |-> n + pr.num, err |-> "slice bounds out of range",
            segs |-> segs, panic |-> TRUE]
      ELSE IF fnErr(fail, Len(all)) # "nil"
      THEN [buf |-> filled, n |-> n + pr.num, err |-> pr.err, segs |-> all,
            panic |-> FALSE]
      ELSE IF pr.err # "nil"
      THEN [buf |-> moved, n |-> n + pr.num, err |-> readFromErr(pr.err), segs |-> all,
            panic |-> FALSE]
      ELSE filterReadFromLoop(moved, SubSeq(d, k + 1, Len(d)), b, fail, n + pr.num, all)

FilterReadFrom_StaleSegment(r, d, b, fail) ==
  [filterReadFromLoop(r, d, b, fail, 0, <<>>) EXCEPT
     !.segs = [i \in 1..Len(@) |-> Slice(r.items, r.write, r.write + Len(@[i]))]]

FilterReadFrom(r, d, b, fail) == filterReadFromLoop(r, d, b, fail, 0, <<>>)

\* ---- gbufio.Writer (src/gbufio/writer.go) ------------------------------------
defaultBufSize == 4096

\* no Writer has been constructed
NoWriter == [err |-> "nil", buf |-> <<>>, n |-> 0 - 1, wr |-> [room |-> 0, quiet |-> FALSE, short |-> FALSE, failed |-> FALSE]]

\* an underlying writer that accepts room items.  Offered more, it takes what it has room
\* for and returns ErrSink; a quiet one returns a short count with a nil error first and
\* ErrSink on the call after that.  failed says that it has returned an error; called
\* again after that, it returns another error
Sink(room, quiet) == [room |-> room, quiet |-> quiet, short |-> FALSE, failed |-> FALSE]

\* b.wr.Write(p)
sinkWrite(wr, p) ==
  IF wr.failed
  THEN [wr |-> wr, n |-> 0, err |-> "ErrSinkAgain"]
  ELSE IF Len(p) <= wr.room
  THEN [wr |-> [wr EXCEPT !.room = @ - Len(p)], n |-> Len(p), err |-> "nil"]
  ELSE IF wr.quiet /\ ~wr.short
  THEN [wr |-> [wr EXCEPT !.room = 0, !.short = TRUE], n |-> wr.room, err |-> "nil"]
  ELSE [wr |-> [wr EXCEPT !.room = 0, !.failed = TRUE], n |-> wr.room, err |-> "ErrSink"]

newWriter(w, size) ==
  [err |-> "nil", buf |-> Make(IF size <= 0 THEN defaultBufSize ELSE size), n |-> 0, wr |-> w]

WriterAvailable(b) == Len(b.buf) - b.n

WriterBuffered(b) == b.n

WriterReset(b, w) == [b EXCEPT !.err = "nil", !.n = 0, !.wr = w]

\* Flush without its test of b.err
WriterFlush_Retry(b) ==
  IF b.n = 0
  THEN [b |-> b, err |-> "nil", calls |-> 0]
  ELSE LET sw == sinkWrite(b.wr, Slice(b.buf, 0, b.n))
           err == IF sw.n < b.n /\ sw.err = "nil" THEN "ErrShortWrite" ELSE sw.err
       IN  IF err # "nil"
           THEN [b |-> [b EXCEPT !.wr = sw.wr,
                                 !.buf = IF sw.n > 0 /\ sw.n < b.n
                                         THEN Copy(b.buf, 0, b.n - sw.n, Slice(b.buf, sw.n, b.n)).s
                                         ELSE b.buf,
                                 !.n = b.n - sw.n,
                                 !.err = err],
                 err |-> err, calls |-> 1]
           ELSE [b |-> [b EXCEPT !.wr = sw.wr, !.n = 0], err |-> "nil", calls |-> 1]

\* calls is the number of calls made to the underlying writer
WriterFlush(b) ==
  IF b.err # "nil"
  THEN [b |-> b, err |-> b.err, calls |-> 0]
  ELSE IF b.n = 0
  THEN [b |-> b, err |-> "nil", calls |-> 0]
  ELSE LET sw == sinkWrite(b.wr, Slice(b.buf, 0, b.n))
           err == IF sw.n < b.n /\ sw.err = "nil" THEN "ErrShortWrite" ELSE sw.err
       IN  IF err # "nil"
           THEN [b |-> [b EXCEPT !.wr = sw.wr,
                                 !.buf = IF sw.n > 0 /\ sw.n < b.n
                                         THEN Copy(b.buf, 0, b.n - sw.n, Slice(b.buf, sw.n, b.n)).s
                                         ELSE b.buf,
                                 !.n = b.n - sw.n,
                                 !.err = err],
                 err |-> err, calls |-> 1]
           ELSE [b |-> [b EXCEPT !.wr = sw.wr, !.n = 0], err |-> "nil", calls |-> 1]

\* the loop of Write and what follows it
RECURSIVE writerWriteLoop(_, _, _, _)
writerWriteLoop(b, p, nn, calls) ==
  IF Len(p) > WriterAvailable(b) /\ b.err = "nil"
  THEN IF WriterBuffered(b) = 0
       THEN LET sw == sinkWrite(b.wr, p)
            IN  writerWriteLoop([b EXCEPT !.wr = sw.wr, !.err = sw.err],
                                Slice(p, sw.n, Len(p)), nn + sw.n, calls + 1)
       ELSE LET c == Copy(b.buf, b.n, Len(b.buf), p)
                fl == WriterFlush([b EXCEPT !.buf = c.s, !.n = b.n + c.n])
            IN  writerWriteLoop(fl.b, Slice(p, c.n, Len(p)), nn + c.n, calls + fl.calls)
  ELSE IF b.err # "nil"
  THEN [b |-> b, nn |-> nn, err |-> b.err, calls |-> calls]
  ELSE LET c == Copy(b.buf, b.n, Len(b.buf), p)
       IN  [b |-> [b EXCEPT !.buf = c.s, !.n = b.n + c.n],
            nn |-> nn + c.n, err |-> "nil", calls |-> calls]

WriterWrite(b, p) == writerWriteLoop(b, p, 0, 0)

WriterWriteItem(b, c) ==
  IF b.err # "nil"
  THEN [b |-> b, err |-> b.err, calls |-> 0]
  ELSE LET fl == IF WriterAvailable(b) <= 0 THEN WriterFlush(b)
                 ELSE [b |-> b, err |-> "nil", calls |-> 0]
       IN  IF fl.err # "nil"
           THEN [b |-> fl.b, err |-> fl.b.err, calls |-> fl.calls]
           ELSE [b |-> [fl.b EXCEPT !.buf = [@ EXCEPT ![fl.b.n + 1] = c], !.n = fl.b.n + 1],
                 err |-> "nil", calls |-> fl.calls]

\* ---- gbufio.Reader (src/gbufio/reader.go) ------------------------------------
minReadBufferSize == 16

\* a nil *T, and a pointer to a copy of item
NilItem == [nil |-> TRUE, item |-> Zero]

ItemPtr(item) == [nil |-> FALSE, item |-> item]

\* no Reader has been constructed
NoReader ==
  [buf |-> <<>>, r |-> 0, w |-> 0, err |-> "nil", lastItem |-> NilItem,
   rd |-> [pos |-> 0, left |-> 0, b |-> [chunk |-> 0, end |-> "nil", tail |-> FALSE, neg |-> 0]]]

\* an underlying reader that holds the left items of the input stream that follow
\* position pos, and delivers them as the producer b does
Source(pos, left, b) == [pos |-> pos, left |-> left, b |-> b]

\* b.rd.Read(p), p having plen slots: the items delivered, the error and the reader after
sourceRead(rd, plen) ==
  LET d == Stream(rd.pos, rd.left)
      pr == ProducerRead(plen, d, rd.b, 0)
  IN  [rd |-> [rd EXCEPT !.pos = (@ + pr.num) % MaxVal, !.left = @ - pr.num],
       got |-> SubSeq(d, 1, pr.num), n |-> pr.num, err |-> pr.err]

newReader(rd, size) ==
  [buf |-> Make(IF size < minReadBufferSize THEN minReadBufferSize ELSE size),
   r |-> 0, w |-> 0, err |-> "nil", lastItem |-> NilItem, rd |-> rd]

ReaderBuffered(b) == b.w - b.r

\* fill, first part: slide existing data to beginning
fillSlide(b) ==
  IF b.r > 0
  THEN [b EXCEPT !.buf = Copy(b.buf, 0, Len(b.buf), Slice(b.buf, b.r, b.w)).s,
                 !.w = b.w - b.r, !.r = 0]
  ELSE b

\* fill, the outcome sr of reading into s.buf[s.w:].  The underlying readers modelled
\* answer a call in the same way until they are given room or run out of items, so the
\* maxConsecutiveEmptyReads attempts of fill are one attempt, and a count of zero
\* without an error ends in io.ErrNoProgress
fillRead(s, sr) ==
  [s EXCEPT !.rd = sr.rd,
            !.buf = Copy(s.buf, s.w, Len(s.buf), sr.got).s,
            !.w = s.w + sr.n,
            !.err = IF sr.err # "nil" THEN sr.err
                    ELSE IF sr.n > 0 THEN s.err
                    ELSE "ErrNoProgress"]

\* fill, after the slide
fillSlid(s) ==
  IF s.w >= Len(s.buf)
  THEN [b |-> s, panic |-> TRUE]
  ELSE [b |-> fillRead(s, sourceRead(s.rd, Len(s.buf) - s.w)), panic |-> FALSE]

readerFill(b) == fillSlid(fillSlide(b))

\* readErr: the reader with its error cleared; the error is read before the call
readErr(b) == [b EXCEPT !.err = "nil"]

RECURSIVE peekFill(_, _)
peekFill(b, n) ==
  IF ReaderBuffered(b) < n /\ ReaderBuffered(b) < Len(b.buf) /\ b.err = "nil"
  THEN LET f == readerFill(b)
       IN  IF f.panic THEN f ELSE peekFill(f.b, n)
  ELSE [b |-> b, panic |-> FALSE]

\* what Peek returns once the buffer f holds what it could be filled with
peekOut(f, n) ==
  IF n > Len(f.buf)
  THEN [b |-> f, out |-> Slice(f.buf, f.r, f.w), err |-> "ErrBufferFull", panic |-> FALSE]
  ELSE IF f.w - f.r < n
  THEN [b |-> readErr(f), out |-> Slice(f.buf, f.r, f.w),
        err |-> IF f.err = "nil" THEN "ErrBufferFull" ELSE f.err, panic |-> FALSE]
  ELSE [b |-> f, out |-> Slice(f.buf, f.r, f.r + n), err |-> "nil", panic |-> FALSE]

ReaderPeek(b, n) ==
  IF n < 0
  THEN [b |-> b, out |-> <<>>, err |-> "ErrNegativeCount", panic |-> FALSE]
  ELSE LET pf == peekFill([b EXCEPT !.lastItem = NilItem], n)
       IN  IF pf.panic
           THEN [b |-> pf.b, out |-> <<>>, err |-> "nil", panic |-> TRUE]
           ELSE peekOut(pf.b, n)

\* one round of the loop of Discard: fill when nothing is buffered
discardFill(b) ==
  IF ReaderBuffered(b) = 0 THEN readerFill(b) ELSE [b |-> b, panic |-> FALSE]

RECURSIVE discardLoop(_, _, _)
RECURSIVE discardSkip(_, _, _)
discardLoop(b, n, remain) ==
  IF discardFill(b).panic
  THEN [b |-> discardFill(b).b, n |-> n - remain, err |-> "nil", panic |-> TRUE]
  ELSE discardSkip(discardFill(b).b, n, remain)

\* the rest of the round: skip what is buffered, up to remain items
discardSkip(f, n, remain) ==
  IF ReaderBuffered(f) >= remain
  THEN [b |-> [f EXCEPT !.r = f.r + remain], n |-> n, err |-> "nil", panic |-> FALSE]
  ELSE IF f.err # "nil"
  THEN [b |-> [f EXCEPT !.r = f.w, !.err = "nil"], n |-> n - (remain - ReaderBuffered(f)),
        err |-> f.err, panic |-> FALSE]
  ELSE discardLoop([f EXCEPT !.r = f.w], n, remain - ReaderBuffered(f))

ReaderDiscard(b, n) ==
  IF n < 0
  THEN [b |-> b, n |-> 0, err |-> "ErrNegativeCount", panic |-> FALSE]
  ELSE IF n = 0
  THEN [b |-> b, n |-> 0, err |-> "nil", panic |-> FALSE]
  ELSE discardLoop([b EXCEPT !.lastItem = NilItem], n, n)

\* Read, last part: copy as much as we can from the buffer
readCopy(f, ln) ==
  [b |-> [f EXCEPT !.r = f.r + Min(ln, f.w - f.r),
                   !.lastItem = ItemPtr(f.buf[f.r + Min(ln, f.w - f.r)])],
   n |-> Min(ln, f.w - f.r), out |-> Slice(f.buf, f.r, f.r + Min(ln, f.w - f.r)),
   err |-> "nil"]

\* Read on an empty buffer, large read: sr is the outcome of b.rd.Read(p)
readDirect(b, sr) ==
  [b |-> [b EXCEPT !.rd = sr.rd,
                   !.lastItem = IF sr.n > 0 THEN ItemPtr(sr.got[sr.n]) ELSE @],
   n |-> sr.n, out |-> sr.got, err |-> sr.err]

\* Read on an empty buffer, one read: sr is the outcome of b.rd.Read(b.buf)
readOnce(b, ln, sr) ==
  IF sr.n = 0
  THEN [b |-> [b EXCEPT !.r = 0, !.w = 0, !.rd = sr.rd, !.err = "nil"],
        n |-> 0, out |-> <<>>, err |-> sr.err]
  ELSE readCopy([b EXCEPT !.r = 0, !.w = sr.n, !.rd = sr.rd, !.err = sr.err,
                          !.buf = Copy(b.buf, 0, Len(b.buf), sr.got).s], ln)

\* Read(p), p having ln items
ReaderRead(b, ln) ==
  IF ln = 0
  THEN IF ReaderBuffered(b) > 0
       THEN [b |-> b, n |-> 0, out |-> <<>>, err |-> "nil"]
       ELSE [b |-> readErr(b), n |-> 0, out |-> <<>>, err |-> b.err]
  ELSE IF b.r # b.w
  THEN readCopy(b, ln)
  ELSE IF b.err # "nil"
  THEN [b |-> readErr(b), n |-> 0, out |-> <<>>, err |-> b.err]
  ELSE IF ln >= Len(b.buf)
  THEN readDirect(b, sourceRead(b.rd, ln))
  ELSE readOnce(b, ln, sourceRead(b.rd, Len(b.buf)))

RECURSIVE ReaderReadItem(_)
ReaderReadItem(b) ==
  IF b.r = b.w
  THEN IF b.err # "nil"
       THEN [b |-> readErr(b), item |-> Zero, err |-> b.err, panic |-> FALSE]
       ELSE LET f == readerFill(b)
            IN  IF f.panic
                THEN [b |-> f.b, item |-> Zero, err |-> "nil", panic |-> TRUE]
                ELSE ReaderReadItem(f.b)
  ELSE [b |-> [b EXCEPT !.r = b.r + 1, !.lastItem = ItemPtr(b.buf[b.r + 1])],
        item |-> b.buf[b.r + 1], err |-> "nil", panic |-> FALSE]

\* UnreadItem: past its guard lastItem is nil, and *b.lastItem panics once the cursor has
\* been moved
ReaderUnreadItem(b) ==
  IF ~b.lastItem.nil \/ (b.r = 0 /\ b.w > 0)
  THEN [b |-> b, err |-> "ErrInvalidUnreadItem", panic |-> FALSE]
  ELSE [b |-> IF b.r > 0 THEN [b EXCEPT !.r = b.r - 1] ELSE [b EXCEPT !.w = 1],
        err |-> "nil", panic |-> TRUE]

\* ---- reference FIFO and bookkeeping -------------------------------------
Drop(s, n) == SubSeq(s, n + 1, Len(s))

Take(s, n) == SubSeq(s, 1, Min(n, Len(s)))

\* the producer or consumer of a call that has none
NoPeer == [chunk |-> 0, end |-> "nil", tail |-> FALSE, neg |-> 0]

\* the record of a call: op, ln (length of the argument), cp (cap of the destination),
\* n, err and out (what it returned, out[1..n] being the items handed to the caller),
\* panic, was (for Write: the reference FIFO's length before the call) and peer (for
\* ReadFrom and WriteTo: the producer or consumer it was called with)
Ret(op, ln, cp, n, err, out, panic) ==
  [op |-> op, ln |-> ln, cp |-> cp, n |-> n, err |-> err, out |-> out, panic |-> panic,
   was |-> IF op = "Write" THEN Len(model) ELSE 0, peer |-> NoPeer]

Count(t) == Min(t, 2 * MaxCap)

Running == ~ret.panic

\* ---- the program --------------------------------------------------------
New(sizes) ==
  \E sz \in sizes :
    /\ reqSize = sz
    /\ write = NewRingBuffer(sz).write
    /\ read = NewRingBuffer(sz).read
    /\ items = NewRingBuffer(sz).items
    /\ ret = [op |-> "New", ln |-> sz, cp |-> 0, n |-> 0, err |-> "nil", out |-> <<>>,
              panic |-> FALSE, was |-> 0, peer |-> NoPeer]
    /\ model = <<>>
    /\ seq = 0
    /\ phase = "new"
    /\ total = 0
    /\ filter = NewRingFilter(sz)
    /\ down = NewRingFilter(sz)
    /\ writer = NoWriter
    /\ reader = NoReader

Init == New(1..MaxCap)

Write ==
  \E ln \in 0..(MaxCap + MaxExtra) :
    LET p == Stream(seq, ln)
        w == RingWrite(Self, p)
    IN  /\ Running
        /\ write' = w.buf.write
        /\ read' = w.buf.read
        /\ items' = w.buf.items
        /\ ret' = Ret("Write", ln, ln, w.n, w.err, <<>>, FALSE)
        /\ model' = LastN(model \o p, Cap(Self))
        /\ seq' = (seq + ln) % MaxVal
        /\ phase' = IF phase \in {"new", "writes"} THEN "writes" ELSE "mixed"
        /\ total' = IF phase \in {"new", "writes"} THEN Count(total + ln) ELSE 0
        /\ UNCHANGED <<writer, reader, reqSize, filter, down>>

WriteItem ==
  LET item == Stream(seq, 1)[1]
      w == RingWriteItem(Self, item)
  IN  /\ Running
      /\ write' = w.buf.write
      /\ read' = w.buf.read
      /\ items' = w.buf.items
      /\ ret' = Ret("WriteItem", 1, 1, 1, w.err, <<>>, FALSE)
      /\ model' = LastN(Append(model, item), Cap(Self))
      /\ seq' = (seq + 1) % MaxVal
      /\ phase' = IF phase \in {"new", "items"} THEN "items" ELSE "mixed"
      /\ total' = IF phase \in {"new", "items"} THEN Count(total + 1) ELSE 0
      /\ UNCHANGED <<writer, reader, reqSize, filter, down>>

Read ==
  \E ln \in 0..(MaxCap + MaxExtra), spare \in 0..MaxSpare :
    LET rd == RingRead(Self, Make(ln + spare), ln)
    IN  /\ Running
        /\ write' = rd.buf.write
        /\ read' = rd.buf.read
        /\ items' = rd.buf.items
        /\ ret' = Ret("Read", ln, ln + spare, rd.n, rd.err, rd.p, rd.panic)
        /\ model' = Drop(model, Min(ln, Len(model)))
        /\ phase' = "mixed"
        /\ total' = 0
        /\ UNCHANGED <<writer, reader, reqSize, filter, down>>
        /\ UNCHANGED seq

ReadItem ==
  LET rd == RingReadItem(Self)
  IN  /\ Running
      /\ write' = rd.buf.write
      /\ read' = rd.buf.read
      /\ items' = rd.buf.items
      /\ ret' = Ret("ReadItem", 1, 1, 1, rd.err, <<rd.item>>, rd.panic)
      /\ model' = Drop(model, Min(1, Len(model)))
      /\ phase' = "mixed"
      /\ total' = 0
      /\ UNCHANGED <<writer, reader, reqSize, filter, down>>
      /\ UNCHANGED seq

Value ==
  LET v == RingValue(Self)
  IN  /\ Running
      /\ write' = v.buf.write
      /\ read' = v.buf.read
      /\ items' = v.buf.items
      /\ ret' = Ret("Value", 0, 0, Len(v.out), "nil", v.out, FALSE)
      /\ model' = <<>>
      /\ phase' = "mixed"
      /\ total' = 0
      /\ UNCHANGED <<writer, reader, reqSize, filter, down>>
      /\ UNCHANGED seq

Reset ==
  LET b == RingReset(Self)
  IN  /\ Running
      /\ write' = b.write
      /\ read' = b.read
      /\ items' = b.items
      /\ ret' = Ret("Reset", 0, 0, 0, "nil", <<>>, FALSE)
      /\ model' = <<>>
      /\ phase' = "mixed"
      /\ total' = 0
      /\ UNCHANGED <<writer, reader, reqSize, filter, down>>
      /\ UNCHANGED seq

Truncate ==
  \E n \in -1..(MaxCap + MaxExtra) :
    LET b == RingTruncate(Self, n)
    IN  /\ Running
        /\ write' = b.write
        /\ read' = b.read
        /\ items' = b.items
        /\ ret' = Ret("Truncate", n, 0, 0, "nil", <<>>, FALSE)
        /\ model' = IF 0 < n /\ n <= Len(model) THEN Drop(model, n) ELSE <<>>
        /\ phase' = "mixed"
        /\ total' = 0
        /\ UNCHANGED <<writer, reader, reqSize, filter, down>>
        /\ UNCHANGED seq

\* the reference FIFO is followed through NextItems and ReadItems and left alone by
\* UnreadItem and Seek, whose claims are stated on the cursors and the storage
NextItems ==
  \E n \in -1..(MaxCap + MaxExtra) :
    LET nx == RingNext(Self, n)
    IN  /\ Running
        /\ write' = nx.buf.write
        /\ read' = nx.buf.read
        /\ items' = nx.buf.items
        /\ ret' = Ret("Next", n, 0, Len(nx.items), "nil", nx.items, FALSE)
        /\ model' = IF n <= 0 THEN model ELSE Drop(model, Min(n, Len(model)))
        /\ phase' = "mixed"
        /\ total' = 0
        /\ UNCHANGED <<writer, reader, reqSize, filter, down>>
        /\ UNCHANGED seq

\* delim is "the item is d"; d = MaxVal + 1 matches no item
ReadItems ==
  \E d \in 0..(MaxVal + 1) :
    LET rd == RingReadItems(Self, d)
        hit == {i \in 1..Len(model) : model[i] = d}
        first == IF hit = {} THEN Len(model)
                 ELSE CHOOSE i \in hit : \A j \in hit : i <= j
    IN  /\ Running
        /\ write' = rd.buf.write
        /\ read' = rd.buf.read
        /\ items' = rd.buf.items
        /\ ret' = Ret("ReadItems", d, 0, Len(rd.line), rd.err, rd.line, FALSE)
        /\ model' = Drop(model, first)
        /\ phase' = "mixed"
        /\ total' = 0
        /\ UNCHANGED <<writer, reader, reqSize, filter, down>>
        /\ UNCHANGED seq

\* the record of UnreadItem keeps what the call before it was: n is 1 when that call was a
\* Read or ReadItem that handed at least one item to its caller, out is the last such item
UnreadItem ==
  LET u == RingUnreadItem(Self)
      consumed == /\ ret.op \in {"Read", "ReadItem"}
                  /\ ret.n > 0
                  /\ Len(ret.out) >= ret.n
  IN  /\ Running
      /\ write' = u.buf.write
      /\ read' = u.buf.read
      /\ items' = u.buf.items
      /\ ret' = Ret("UnreadItem", 0, 0, IF consumed THEN 1 ELSE 0, u.err,
                    IF consumed THEN <<ret.out[ret.n]>> ELSE <<>>, FALSE)
      /\ phase' = "mixed"
      /\ total' = 0
      /\ UNCHANGED <<writer, reader, reqSize, filter, down>>
      /\ UNCHANGED <<model, seq>>

Seek ==
  \E offset \in (0 - MaxCap)..(MaxCap + MaxExtra), whence \in 0..3 :
    LET s == RingSeek(Self, offset, whence)
    IN  /\ Running
        /\ write' = s.buf.write
        /\ read' = s.buf.read
        /\ items' = s.buf.items
        /\ ret' = Ret("Seek", offset, whence, s.abs, s.err, <<>>, FALSE)
        /\ phase' = "mixed"
        /\ total' = 0
        /\ UNCHANGED <<writer, reader, reqSize, filter, down>>
        /\ UNCHANGED <<model, seq>>

\* producers that deliver their items and then end with io.EOF
Eofs == [chunk : 1..MaxCap, end : {"EOF"}, tail : {FALSE}, neg : {0}]

\* producers that also end with another error or hand their error over with their last
\* items, and producers that report a negative count on one of their first MaxNegCall
\* calls
Producers ==
  [chunk : 1..MaxCap, end : {"EOF", "ErrProducer"}, tail : BOOLEAN, neg : {0}]
    \cup [chunk : 1..MaxCap, end : {"EOF"}, tail : {FALSE}, neg : 1..MaxNegCall]

\* the producer holds the next ln items of the input stream; the record keeps the
\* producer in peer and the counts it reported in out
ReadFromOf(producers) ==
  \E ln \in 0..(MaxCap + MaxExtra), b \in producers :
    \E rf \in {RingReadFrom(Self, Stream(seq, ln), b)} :
    LET d == Stream(seq, ln)
    IN  /\ Running
        /\ write' = rf.buf.write
        /\ read' = rf.buf.read
        /\ items' = rf.buf.items
        /\ ret' = [Ret("ReadFrom", ln, b.chunk, rf.n, rf.err, rf.nums, rf.panic)
                     EXCEPT !.peer = b]
        /\ model' = LastN(model \o d, Cap(Self))
        /\ seq' = (seq + ln) % MaxVal
        /\ phase' = "mixed"
        /\ total' = 0
        /\ UNCHANGED <<writer, reader, reqSize, filter, down>>

ReadFrom == ReadFromOf(Eofs)

ReadFromAny == ReadFromOf(Producers)

\* consumers: room 0 accepts nothing, room above MaxCap accepts everything
Consumers ==
  [room : 0..(MaxCap + 1), short : {"nil", "EOF", "ErrConsumer"}, neg : {0}]
    \cup [room : {MaxCap + 1}, short : {"nil"}, neg : 1..MaxNegCall]

\* the record keeps the consumer in peer, the number of its calls in ln and the items
\* it accepted in out
WriteTo ==
  \E c \in Consumers :
    \E wt \in {RingWriteTo(Self, c)} :
        /\ Running
        /\ write' = wt.buf.write
        /\ read' = wt.buf.read
        /\ items' = wt.buf.items
        /\ ret' = [Ret("WriteTo", wt.calls, c.room, wt.n, wt.err, wt.pushed, wt.panic)
                     EXCEPT !.peer = c]
        /\ model' = Drop(model, Min(Len(wt.pushed), Len(model)))
        /\ phase' = "mixed"
        /\ total' = 0
        /\ UNCHANGED <<writer, reader, reqSize, filter, down>>
        /\ UNCHANGED seq

Next ==
  \/ Write
  \/ WriteItem
  \/ Read
  \/ ReadItem
  \/ Value
  \/ Reset
  \/ Truncate

Spec == Init /\ [][Next]_vars

\* a buffer that is only written with Write and read with Read
NextWR ==
  \/ Write
  \/ Read

SpecWR == Init /\ [][NextWR]_vars

\* Write and Read with the partial reads Next and ReadItems
NextItemwise ==
  \/ Write
  \/ Read
  \/ NextItems
  \/ ReadItems

SpecItemwise == Init /\ [][NextItemwise]_vars

\* Write and the reads with the cursor operations UnreadItem and Seek
NextCursor ==
  \/ Write
  \/ Read
  \/ ReadItem
  \/ UnreadItem
  \/ Seek

SpecCursor == Init /\ [][NextCursor]_vars

\* a buffer filled by Write and by ReadFrom, and read with Read
NextReadFrom ==
  \/ Write
  \/ Read
  \/ ReadFrom

SpecReadFrom == Init /\ [][NextReadFrom]_vars

\* the call of ReadFrom or WriteTo, whose producer or consumer may fail, is the last
\* call made on the buffer
BeforePeer == ret.op \notin {"ReadFrom", "WriteTo"}

\* a buffer written with Write and then filled from any producer (ReadFrom does not use
\* the read cursor)
NextProducers ==
  \/ BeforePeer /\ Write
  \/ BeforePeer /\ ReadFromAny

SpecProducers == Init /\ [][NextProducers]_vars

\* a buffer written with Write, read with ReadItem and then emptied into any consumer
NextConsumers ==
  \/ BeforePeer /\ Write
  \/ BeforePeer /\ ReadItem
  \/ BeforePeer /\ WriteTo

SpecConsumers == Init /\ [][NextConsumers]_vars

\* both at once
NextPeers ==
  \/ BeforePeer /\ Write
  \/ BeforePeer /\ ReadItem
  \/ BeforePeer /\ ReadFromAny
  \/ BeforePeer /\ WriteTo

SpecPeers == Init /\ [][NextPeers]_vars

\* every size NewRingBuffer accepts, the non-positive ones included.  Buffers of
\* fewer than MaxCap slots are explored in full; the larger ones (MaxCap and the
\* default size) take a few Write or WriteItem calls and then one call of any kind.
InitAny == New((0 - MaxNeg)..MaxCap)

NextAny ==
  /\ Cap(Self) >= MaxCap => phase # "mixed" /\ total < 2 * MaxCap
  /\ Next

SpecAny == InitAny /\ [][NextAny]_vars

\* ---- RingFilter calls ---------------------------------------------------
\* (a call with a loop is bound by \E to the one-element set of its result, so that it is
\* evaluated once)
\* every call on filter is also made on the RingBuffer, with the same arguments.  The
\* record of a call on filter keeps what filter returned; for Write and ReadFrom, cp is
\* the invocation on which the callback fails and out the segments it was handed
FilterWriteOf(fails) ==
  \E ln \in 0..(MaxCap + MaxExtra), fail \in fails :
    LET p == Stream(seq, ln)
        fw == FilterWrite(filter, p, fail)
        w == RingWrite(Self, p)
    IN  /\ Running
        /\ filter' = fw.buf
        /\ write' = w.buf.write
        /\ read' = w.buf.read
        /\ items' = w.buf.items
        /\ ret' = Ret("Filter.Write", ln, fail, fw.n, fw.err, fw.segs, FALSE)
        /\ model' = LastN(model \o p, Cap(Self))
        /\ seq' = (seq + ln) % MaxVal
        /\ phase' = "mixed"
        /\ total' = 0
        /\ UNCHANGED <<writer, reader, reqSize, down>>

FilterReadFromOf(producers, fails) ==
  \E ln \in 0..(MaxCap + MaxExtra), b \in producers, fail \in fails :
    \E frf \in {FilterReadFrom(filter, Stream(seq, ln), b, fail)},
       rf \in {RingReadFrom(Self, Stream(seq, ln), b)} :
    LET d == Stream(seq, ln)
    IN  /\ Running
        /\ filter' = frf.buf
        /\ write' = rf.buf.write
        /\ read' = rf.buf.read
        /\ items' = rf.buf.items
        /\ ret' = [Ret("Filter.ReadFrom", ln, fail, frf.n, frf.err, frf.segs,
                       frf.panic \/ rf.panic) EXCEPT !.peer = b]
        /\ model' = LastN(model \o d, Cap(Self))
        /\ seq' = (seq + ln) % MaxVal
        /\ phase' = "mixed"
        /\ total' = 0
        /\ UNCHANGED <<writer, reader, reqSize, down>>

FilterReadCall ==
  \E ln \in 0..(MaxCap + MaxExtra), spare \in 0..MaxSpare :
    LET frd == FilterRead(filter, Make(ln + spare), ln)
        rd == RingRead(Self, Make(ln + spare), ln)
    IN  /\ Running
        /\ filter' = frd.buf
        /\ write' = rd.buf.write
        /\ read' = rd.buf.read
        /\ items' = rd.buf.items
        /\ ret' = Ret("Filter.Read", ln, ln + spare, frd.n, frd.err, frd.p,
                      frd.panic \/ rd.panic)
        /\ model' = Drop(model, Min(ln, Len(model)))
        /\ phase' = "mixed"
        /\ total' = 0
        /\ UNCHANGED <<writer, reader, reqSize, down, seq>>

FilterValueCall ==
  LET fv == FilterValue(filter)
      v == RingValue(Self)
  IN  /\ Running
      /\ filter' = fv.buf
      /\ write' = v.buf.write
      /\ read' = v.buf.read
      /\ items' = v.buf.items
      /\ ret' = Ret("Filter.Value", 0, 0, Len(fv.out), "nil", fv.out, FALSE)
      /\ model' = <<>>
      /\ phase' = "mixed"
      /\ total' = 0
      /\ UNCHANGED <<writer, reader, reqSize, down, seq>>

FilterResetCall ==
  LET b == RingReset(Self)
  IN  /\ Running
      /\ filter' = FilterReset(filter)
      /\ write' = b.write
      /\ read' = b.read
      /\ items' = b.items
      /\ ret' = Ret("Filter.Reset", 0, 0, 0, "nil", <<>>, FALSE)
      /\ model' = <<>>
      /\ phase' = "mixed"
      /\ total' = 0
      /\ UNCHANGED <<writer, reader, reqSize, down, seq>>

FilterWriteToOf(consumers) ==
  \E c \in consumers :
    \E fwt \in {FilterWriteTo(filter, c)}, wt \in {RingWriteTo(Self, c)} :
        /\ Running
        /\ filter' = fwt.buf
        /\ write' = wt.buf.write
        /\ read' = wt.buf.read
        /\ items' = wt.buf.items
        /\ ret' = [Ret("Filter.WriteTo", fwt.calls, c.room, fwt.n, fwt.err, fwt.pushed,
                       fwt.panic \/ wt.panic) EXCEPT !.peer = c]
        /\ model' = Drop(model, Min(Len(fwt.pushed), Len(model)))
        /\ phase' = "mixed"
        /\ total' = 0
        /\ UNCHANGED <<writer, reader, reqSize, down, seq>>

\* producers that end with io.EOF, by a call of its own or with their last items
EofsAnyTail == [chunk : 1..MaxCap, end : {"EOF"}, tail : BOOLEAN, neg : {0}]

\* a RingFilter whose callback never fails, written, filled and read.  A producer that
\* hands io.EOF over with its last items leaves the filter as the producer of the same
\* items that reports io.EOF by a call of its own does, so the calls that follow are
\* explored from the latter only
FilterWriteNilFn == FilterWriteOf({0})

FilterReadFromAnyTail == FilterReadFromOf(EofsAnyTail, {0})

BeforeTail == ~ret.peer.tail

NextFilter ==
  \/ BeforeTail /\ FilterWriteNilFn
  \/ BeforeTail /\ FilterReadFromAnyTail
  \/ BeforeTail /\ FilterReadCall

SpecFilter == Init /\ [][NextFilter]_vars

\* a RingFilter written and filled; the call whose callback is one that fails is the
\* last call made
FilterWriteAnyFn == FilterWriteOf(0..MaxFail)

FilterReadFromAnyFn == FilterReadFromOf(EofsAnyTail, 0..MaxFail)

BeforeFail == ret.op \in {"Filter.Write", "Filter.ReadFrom"} => ret.cp = 0

NextFilterFail ==
  \/ BeforeFail /\ FilterWriteAnyFn
  \/ BeforeFail /\ FilterReadFromAnyFn

SpecFilterFail == Init /\ [][NextFilterFail]_vars

\* a RingFilter whose callback is nil, next to a RingBuffer
FilterReadFromNilFn == FilterReadFromOf(Eofs, {0})

FilterWriteToAll == FilterWriteToOf({[room |-> MaxCap + 1, short |-> "nil", neg |-> 0]})

NextTwin ==
  \/ FilterWriteNilFn
  \/ FilterReadFromNilFn
  \/ FilterReadCall
  \/ FilterValueCall
  \/ FilterWriteToAll
  \/ FilterResetCall

SpecTwin == Init /\ [][NextTwin]_vars

\* ---- a pipeline of two RingFilters ----------------------------------------
\* the item-wise transform of the callback
Conv(x) == x + MaxVal

\* down.Write called with the transform of each segment in turn
RECURSIVE WriteSegments(_, _)
WriteSegments(r, segs) ==
  IF segs = <<>>
  THEN r
  ELSE WriteSegments(FilterWrite(r, [i \in 1..Len(Head(segs)) |-> Conv(Head(segs)[i])], 0).buf,
                     Tail(segs))

\* filter.ReadFrom, the callback of filter being "write the transform of the segment to
\* down", which returns the error of down.Write: nil, the callback of down being nil
PipeReadFrom ==
  \E ln \in 0..(MaxLaps * MaxCap + MaxExtra), b \in Eofs :
    \E frf \in {FilterReadFrom(filter, Stream(seq, ln), b, 0)} :
    LET d == Stream(seq, ln)
    IN  /\ Running
        /\ filter' = frf.buf
        /\ down' = WriteSegments(down, frf.segs)
        /\ ret' = [Ret("Pipe.ReadFrom", ln, 0, frf.n, frf.err, frf.segs, frf.panic)
                     EXCEPT !.peer = b]
        /\ seq' = (seq + ln) % MaxVal
        /\ UNCHANGED <<writer, reader, reqSize, write, read, items, model, phase, total>>

DownRead ==
  \E ln \in 0..(MaxCap + MaxExtra) :
    LET rd == FilterRead(down, Make(ln), ln)
    IN  /\ Running
        /\ down' = rd.buf
        /\ ret' = Ret("Down.Read", ln, ln, rd.n, rd.err, rd.p, rd.panic)
        /\ UNCHANGED <<writer, reader, reqSize, write, read, items, model, phase, total, filter, seq>>

NextPipe ==
  \/ PipeReadFrom
  \/ DownRead

SpecPipe == Init /\ [][NextPipe]_vars

\* ---- gbufio.Writer calls -------------------------------------------------
\* the record of a call on writer keeps in cp the number of calls it made to the
\* underlying writer
NewWriterCall ==
  \E size \in 1..MaxCap, room \in 0..MaxRoom, quiet \in BOOLEAN :
    /\ writer = NoWriter
    /\ writer' = newWriter(Sink(room, quiet), size)
    /\ ret' = Ret("NewWriter", size, 0, 0, "nil", <<>>, FALSE)
    /\ UNCHANGED <<reqSize, write, read, items, model, seq, phase, total, filter, down,
                   reader>>

WriterWriteCall ==
  \E ln \in 0..(MaxCap + MaxExtra) :
    \E ww \in {WriterWrite(writer, Stream(seq, ln))} :
      /\ writer # NoWriter
      /\ writer' = ww.b
      /\ ret' = Ret("Writer.Write", ln, ww.calls, ww.nn, ww.err, <<>>, FALSE)
      /\ seq' = (seq + ln) % MaxVal
      /\ UNCHANGED <<reqSize, write, read, items, model, phase, total, filter, down,
                     reader>>

WriterWriteItemCall ==
  LET wi == WriterWriteItem(writer, Stream(seq, 1)[1])
  IN  /\ writer # NoWriter
      /\ writer' = wi.b
      /\ ret' = Ret("Writer.WriteItem", 1, wi.calls, 0, wi.err, <<>>, FALSE)
      /\ seq' = (seq + 1) % MaxVal
      /\ UNCHANGED <<reqSize, write, read, items, model, phase, total, filter, down,
                     reader>>

WriterFlushCall ==
  LET fl == WriterFlush(writer)
  IN  /\ writer # NoWriter
      /\ writer' = fl.b
      /\ ret' = Ret("Writer.Flush", 0, fl.calls, 0, fl.err, <<>>, FALSE)
      /\ UNCHANGED <<reqSize, write, read, items, model, seq, phase, total, filter, down,
                     reader>>

WriterResetCall ==
  \E room \in 0..MaxRoom, quiet \in BOOLEAN :
    /\ writer # NoWriter
    /\ writer' = WriterReset(writer, Sink(room, quiet))
    /\ ret' = Ret("Writer.Reset", 0, 0, 0, "nil", <<>>, FALSE)
    /\ UNCHANGED <<reqSize, write, read, items, model, seq, phase, total, filter, down,
                   reader>>

NextWriter ==
  \/ NewWriterCall
  \/ WriterWriteCall
  \/ WriterWriteItemCall
  \/ WriterFlushCall
  \/ WriterResetCall

SpecWriter == Init /\ [][NextWriter]_vars

\* ---- gbufio.Reader calls -------------------------------------------------
NewReaderCall ==
  \E size \in 1..MaxCap, left \in 0..(MaxCap + MaxExtra), b \in EofsAnyTail :
    /\ reader = NoReader
    /\ reader' = newReader(Source(seq, left, b), size)
    /\ ret' = [Ret("NewReader", size, 0, 0, "nil", <<>>, FALSE) EXCEPT !.peer = b]
    /\ UNCHANGED <<reqSize, write, read, items, model, seq, phase, total, filter, down,
                   writer>>

ReaderReadCall ==
  \E ln \in 0..(MaxCap + MaxExtra) :
    LET rr == ReaderRead(reader, ln)
    IN  /\ reader # NoReader
        /\ Running
        /\ reader' = rr.b
        /\ ret' = Ret("Reader.Read", ln, ln, rr.n, rr.err, rr.out, FALSE)
        /\ UNCHANGED <<reqSize, write, read, items, model, seq, phase, total, filter, down,
                       writer>>

ReaderReadItemCall ==
  LET ri == ReaderReadItem(reader)
  IN  /\ reader # NoReader
      /\ Running
      /\ reader' = ri.b
      /\ ret' = Ret("Reader.ReadItem", 1, 1, IF ri.err = "nil" THEN 1 ELSE 0, ri.err,
                    <<ri.item>>, ri.panic)
      /\ UNCHANGED <<reqSize, write, read, items, model, seq, phase, total, filter, down,
                     writer>>

ReaderPeekCall ==
  \E n \in 0..(MaxCap + MaxExtra) :
    LET pk == ReaderPeek(reader, n)
    IN  /\ reader # NoReader
        /\ Running
        /\ reader' = pk.b
        /\ ret' = Ret("Reader.Peek", n, n, Len(pk.out), pk.err, pk.out, pk.panic)
        /\ UNCHANGED <<reqSize, write, read, items, model, seq, phase, total, filter, down,
                       writer>>

ReaderDiscardCall ==
  \E n \in 1..(MaxCap + MaxExtra) :
    LET dc == ReaderDiscard(reader, n)
    IN  /\ reader # NoReader
        /\ Running
        /\ reader' = dc.b
        /\ ret' = Ret("Reader.Discard", n, n, dc.n, dc.err, <<>>, dc.panic)
        /\ UNCHANGED <<reqSize, write, read, items, model, seq, phase, total, filter, down,
                       writer>>

ReaderUnreadItemCall ==
  LET ur == ReaderUnreadItem(reader)
  IN  /\ reader # NoReader
      /\ Running
      /\ reader' = ur.b
      /\ ret' = Ret("Reader.UnreadItem", 0, 0, 0, ur.err, <<>>, ur.panic)
      /\ UNCHANGED <<reqSize, write, read, items, model, seq, phase, total, filter, down,
                     writer>>

NextReader ==
  \/ NewReaderCall
  \/ ReaderReadCall
  \/ ReaderReadItemCall
  \/ ReaderPeekCall
  \/ ReaderDiscardCall
  \/ ReaderUnreadItemCall

\* the reader does not touch the ring buffer, so one ring buffer is constructed beside it
InitReader == New({MaxCap})

SpecReader == InitReader /\ [][NextReader]_vars

\* a buffer that is only written: Write, WriteItem and ReadFrom
NextWriters ==
  \/ Write
  \/ WriteItem
  \/ ReadFrom

SpecWriters == Init /\ [][NextWriters]_vars

\* a buffer written with Write and read in every way; the call of WriteTo is the last
\* call made
NextReads ==
  \/ BeforePeer /\ Write
  \/ BeforePeer /\ Read
  \/ BeforePeer /\ ReadItem
  \/ BeforePeer /\ Value
  \/ BeforePeer /\ WriteTo

SpecReads == Init /\ [][NextReads]_vars

TypeOK ==
  /\ write \in 0..Len(items)
  /\ read \in 0..Len(items)
  /\ Len(items) \in 1..MaxCap
  /\ Len(model) <= Len(items)

\* ---- what a call handed to its caller -----------------------------------
\* the first n items of the destination
Got(r) == SubSeq(r.out, 1, Min(r.n, Len(r.out)))

\* the k storage slots that follow the read cursor of r, around the end of storage
Unread(r, k) == [i \in 1..k |-> r.items[((r.read + i - 1) % Len(r.items)) + 1]]

\* ---- claims -------------------------------------------------------------
\* A claim about what a call did is an action property: the unprimed variables are
\* the buffer before the call, ret' is the call and the primed variables the buffer
\* after it; ret (unprimed) is the call before.

\* C1: under any interleaving of Write and Read the buffer is a bounded FIFO that
\* drops the oldest unread items on overflow: every Read returns the oldest items of
\* the last min(N, unread + written) items written and not yet read, in write order.
C1_BoundedFifo ==
  [][ret'.op = "Read" =>
       /\ ~ret'.panic
       /\ ret'.n = Min(ret'.ln, Len(model))
       /\ Got(ret') = Take(model, ret'.ln)]_vars

\* C2: on a fresh buffer, after Write calls that wrote T <= capacity items in total
\* and no read, Len() = T, and a Read into a destination of capacity items returns
\* exactly the T items written, in order.
C2_WritesWithinCapacity ==
  [][/\ (phase' = "writes" /\ total' <= Cap(Self) => BufLen(Self)' = total')
     /\ (phase = "writes" /\ total <= Cap(Self) /\ ret'.op = "Read" /\ ret'.ln = Cap(Self) =>
           /\ ~ret'.panic
           /\ ret'.n = total
           /\ Got(ret') = Stream(0, total))]_vars

\* C3: after one Write of at least N items, in any state, Len() = N and a Read of N
\* items returns the last N items of that input, in input order.
C3_LongWriteKeepsLastN ==
  [][/\ (ret'.op = "Write" /\ ret'.ln >= Cap(Self) => BufLen(Self)' = Cap(Self))
     /\ (ret.op = "Write" /\ ret.ln >= Cap(Self) /\ ret'.op = "Read" /\ ret'.ln = Cap(Self) =>
           /\ ~ret'.panic
           /\ ret'.n = Cap(Self)
           /\ Got(ret') = Stream(seq - Cap(Self) + MaxVal, Cap(Self)))]_vars

\* C4: Write accepts all its input: it returns n = len(p) and a nil error, whatever
\* the length of p and the state of the buffer.
C4_WriteReturnsLen ==
  ret.op = "Write" => ret.n = ret.ln /\ ret.err = "nil"

\* C5: round trip: on a buffer with no unread items, Write(X) with 0 < len(X) <= N
\* followed at once by a Read into len(X) items returns exactly X.
C5_RoundTrip ==
  [][ret.op = "Write" /\ ret.was = 0 /\ 0 < ret.ln /\ ret.ln <= Cap(Self)
       /\ ret'.op = "Read" /\ ret'.ln = ret.ln =>
       /\ ~ret'.panic
       /\ ret'.n = ret.ln
       /\ Got(ret') = Stream(seq - ret.ln + MaxVal, ret.ln)]_vars

\* C6: on a fresh buffer of capacity N, WriteItem called N + k times (0 < k < N) and
\* then a Read of N items yields items k .. N+k-1 of the written sequence, in order.
C6_WriteItemWraps ==
  [][phase = "items" /\ Cap(Self) < total /\ total < 2 * Cap(Self)
       /\ ret'.op = "Read" /\ ret'.ln = Cap(Self) =>
       /\ ~ret'.panic
       /\ ret'.n = Cap(Self)
       /\ Got(ret') = Stream(total - Cap(Self), Cap(Self))]_vars

\* C7: Read on an empty buffer returns zero items, with io.EOF when the destination
\* has a non-zero length and with no error when it has length zero.
C7_ReadEmptyIsEOF ==
  [][ret'.op = "Read" /\ model = <<>> =>
       /\ ~ret'.panic
       /\ ret'.n = 0
       /\ ret'.err = IF ret'.ln > 0 THEN "EOF" ELSE "nil"]_vars

\* C8: in every state and for every destination length L, Read returns n <= L and
\* n <= Len() (before the call), copies the n oldest unread items in order into
\* dest[0..n) and advances the read cursor by n modulo the capacity.
C8_ReadCopiesAndAdvances ==
  [][ret'.op = "Read" =>
       /\ ~ret'.panic
       /\ ret'.n <= ret'.ln
       /\ ret'.n <= BufLen(Self)
       /\ Got(ret') = Unread(Self, ret'.n)
       /\ read' = (read + ret'.n) % Cap(Self)]_vars

\* C9: in every state Len() is the number of unread items: 0 when the buffer is empty
\* (also right after construction), N when full, (write - read) mod N otherwise; so
\* 0 <= Len() <= Cap() and Len() is the length of what Value() would return.
C9_LenIsUnreadCount ==
  /\ BufLen(Self) = Len(model)
  /\ 0 <= BufLen(Self) /\ BufLen(Self) <= Cap(Self)
  /\ BufLen(Self) = Len(RingValue(Self).out)

\* C10: after Reset, in any state: Len() = 0, Cap() is unchanged, both cursors are
\* zero and every storage slot holds the zero value.
C10_ResetEmpties ==
  [][ret'.op = "Reset" =>
       /\ BufLen(Self)' = 0
       /\ Len(items') = Len(items)
       /\ read' = 0 /\ write' = 0
       /\ \A i \in 1..Len(items') : items'[i] = Zero]_vars

\* C11: Cap() is the capacity asked for at construction when that is positive and the
\* default 256 otherwise, and no sequence of operations changes it.
C11_CapIsRequestedOrDefault ==
  Cap(Self) = IF reqSize <= 0 THEN 256 ELSE reqSize

\* the default-sized buffer, after a call that rewrites its storage
C11_Witness ==
  /\ reqSize <= 0
  /\ ret.op = "Reset"
  /\ Cap(Self) = 256

\* C12: Value() is a drain: it returns exactly the unread region (Len() items, oldest
\* first, around the end of storage), nothing on an empty buffer, and leaves the buffer
\* empty, so that a Value() called again at once returns nothing.
C12_ValueDrains ==
  [][ret'.op = "Value" =>
       /\ Len(ret'.out) = BufLen(Self)
       /\ ret'.out = Unread(Self, BufLen(Self))
       /\ (model = <<>> => ret'.out = <<>>)
       /\ (RingValue(Self).out)' = <<>>]_vars

\* io.SeekStart, io.SeekCurrent, io.SeekEnd
SeekStart == 0

SeekCurrent == 1

SeekEnd == 2

\* the cursor a Seek of the given whence is relative to
SeekBase(whence) ==
  IF whence = SeekStart THEN 0
  ELSE IF whence = SeekCurrent THEN read
  ELSE write

\* the place of the first item of s that is d, or Len(s) + 1 when there is none
FirstMatch(s, d) ==
  IF \E i \in 1..Len(s) : s[i] = d
  THEN CHOOSE i \in 1..Len(s) : s[i] = d /\ \A j \in 1..(i - 1) : s[j] # d
  ELSE Len(s) + 1

\* C13: Next(n) returns nothing and changes nothing for n <= 0; for 0 < n <= Len() it
\* returns the n oldest unread items in order and consumes them; for n > Len() it returns
\* the whole unread region and consumes it, as Value() would.
C13_NextTakesOldest ==
  [][ret'.op = "Next" =>
       LET n == ret'.ln
           k == Len(model)
       IN  /\ n <= 0 => ret'.out = <<>> /\ UNCHANGED <<write, read, items>>
           /\ 0 < n /\ n <= k =>
                /\ ret'.out = Take(model, n)
                /\ read' = (read + n) % Cap(Self)
           /\ n > k =>
                /\ ret'.out = model
                /\ read' = (read + k) % Cap(Self)]_vars

\* C14: after a read that consumed at least one item, one UnreadItem() succeeds and the
\* next read returns the last consumed item again; a second UnreadItem() right after the
\* first fails with the invalid-cursor-operation error.
C14_UnreadItemOnce ==
  [][ret.op = "UnreadItem" /\ ret.n = 1 =>
       /\ ret.err = "nil"
       /\ ret'.op = "ReadItem" => ret'.out = ret.out
       /\ ret'.op = "Read" /\ ret'.ln > 0 => ret'.n > 0 /\ ret'.out[1] = ret.out[1]
       /\ ret'.op = "UnreadItem" => ret'.err = "ErrUnreadItem"]_vars

\* C15: a Seek with an unrecognized whence returns the invalid-whence error, a Seek to a
\* position that is negative before wrapping returns the negative-position error, an
\* UnreadItem with nothing consumed since the last write returns the
\* invalid-cursor-operation error, and each leaves cursors and storage as they were.
C15_MalformedCursorOps ==
  [][/\ ret'.op = "Seek" /\ ret'.cp \notin {SeekStart, SeekCurrent, SeekEnd} =>
          ret'.err = "ErrRingInvalidWhence" /\ UNCHANGED <<write, read, items>>
     /\ ( /\ ret'.op = "Seek"
          /\ ret'.cp \in {SeekStart, SeekCurrent, SeekEnd}
          /\ SeekBase(ret'.cp) + ret'.ln < 0 ) =>
          ret'.err = "ErrRingNegativePosition" /\ UNCHANGED <<write, read, items>>
     /\ ret'.op = "UnreadItem" /\ ret.op \in {"New", "Write"} =>
          ret'.err = "ErrUnreadItem" /\ UNCHANGED <<write, read, items>>]_vars

\* C16: a valid Seek(offset, whence) sets read to (base + offset) mod N, base being 0 for
\* Start, read for Current and write for End; it returns that position, which lies in
\* 0..N-1, and the next ReadItem returns the item stored there.
C16_SeekRepositions ==
  [][( /\ ret'.op = "Seek"
       /\ ret'.cp \in {SeekStart, SeekCurrent, SeekEnd}
       /\ SeekBase(ret'.cp) + ret'.ln >= 0 ) =>
       LET pos == (SeekBase(ret'.cp) + ret'.ln) % Cap(Self)
       IN  /\ ret'.err = "nil"
           /\ read' = pos
           /\ ret'.n = pos
           /\ ret'.n \in 0..(Cap(Self) - 1)
           /\ (RingReadItem(Self).item)' = items[pos + 1]]_vars

\* C17: ReadItems(predicate) returns the unread items before the first one satisfying the
\* predicate, in order, and consumes them and the matching item; when none matches it
\* returns and consumes the whole unread region, wrapped or not.
C17_ReadItemsUpToMatch ==
  [][ret'.op = "ReadItems" =>
       LET first == FirstMatch(model, ret'.ln)
       IN  /\ ret'.out = SubSeq(model, 1, first - 1)
           /\ read' = (read + Min(first, Len(model))) % Cap(Self)]_vars

\* C18: ReadItem on an empty buffer returns io.EOF and does not move the read cursor; on
\* a buffer that is not empty it returns the oldest unread item.
C18_ReadItemOldestOrEOF ==
  [][ret'.op = "ReadItem" =>
       IF model = <<>>
       THEN ret'.err = "EOF" /\ read' = read
       ELSE ret'.out = <<Head(model)>> /\ ret'.err = "nil"]_vars

\* C19: Truncate(n) with 0 < n < Len() discards the n oldest unread items, zeroing their
\* slots, and keeps the others readable in order; with n <= 0 or n above the unread
\* length it resets the buffer.
C19_TruncateDiscardsOldest ==
  [][ret'.op = "Truncate" =>
       LET n == ret'.ln
           k == Len(model)
       IN  /\ 0 < n /\ n < k =>
                /\ Unread(Self', k - n) = Drop(model, n)
                /\ BufLen(Self') = k - n
                /\ \A i \in 1..n : items'[((read + i - 1) % Cap(Self)) + 1] = Zero
           /\ n <= 0 \/ n > k => Self' = RingReset(Self)]_vars

\* Write called on each of the chunks of d in turn, nums being their sizes
RECURSIVE WriteChunks(_, _, _)
WriteChunks(r, d, nums) ==
  IF nums = <<>>
  THEN r
  ELSE WriteChunks(RingWrite(r, SubSeq(d, 1, Head(nums))).buf,
                   SubSeq(d, Head(nums) + 1, Len(d)), Tail(nums))

\* a Read of every length up to the capacity returns the same from a and from b
SameReads(a, b) ==
  \A ln \in 0..Len(a.items) :
    LET ra == RingRead(a, Make(ln), ln)
        rb == RingRead(b, Make(ln), ln)
    IN  /\ ra.n = rb.n
        /\ ra.err = rb.err
        /\ ra.panic = rb.panic
        /\ SubSeq(ra.p, 1, Min(ra.n, ln)) = SubSeq(rb.p, 1, Min(rb.n, ln))

\* C20: ReadFrom evicts as Write does: after it, the buffer answers later reads as the
\* buffer on which Write was called with each chunk the producer delivered.
C20_ReadFromAsWrites ==
  [][ret'.op = "ReadFrom" /\ ret'.peer \in Eofs =>
       SameReads(Self', WriteChunks(Self, Stream(seq, ret'.ln),
                                    SubSeq(ret'.out, 1, Len(ret'.out) - 1)))]_vars

RECURSIVE SumSeq(_)
SumSeq(s) == IF s = <<>> THEN 0 ELSE Head(s) + SumSeq(Tail(s))

\* C21: ReadFrom returns the sum of the counts its producer reported; io.EOF from the
\* producer ends it with a nil error, any other error ends it and is returned as it is;
\* the items delivered before the error and with it are in storage, each in the slot
\* after the one before it, around the end of storage.
C21_ReadFromCountsAndErrors ==
  [][ret'.op = "ReadFrom" /\ ret'.peer.neg = 0 =>
       LET d == Stream(seq, ret'.ln)
           N == Cap(Self)
       IN  /\ ~ret'.panic
           /\ ret'.n = SumSeq(ret'.out)
           /\ ret'.n = Len(d)
           /\ ret'.err = IF ret'.peer.end = "EOF" THEN "nil" ELSE ret'.peer.end
           /\ write' = (write + ret'.n) % N
           /\ \A i \in 1..Len(d) :
                i > Len(d) - N => items'[((write + i - 1) % N) + 1] = d[i]]_vars

\* a producer failed with an error of its own, handed over with the last of more items
\* than the buffer has slots
C21_Witness ==
  /\ ret.op = "ReadFrom"
  /\ ret.peer.end = "ErrProducer"
  /\ ret.peer.tail
  /\ ret.err = "ErrProducer"
  /\ ret.n > Cap(Self)
  /\ Len(ret.out) > 1

\* C22: when the producer of ReadFrom or the consumer of WriteTo reports a negative
\* count, the call stops there with the negative-count fault, and the cursor is where the
\* counts reported before left it.
C22_NegativeCountIsFatal ==
  [][/\ ret'.op = "ReadFrom" /\ ret'.peer.neg \in 1..Len(ret'.out) =>
          /\ ret'.panic
          /\ ret'.err = "errNegativeRead"
          /\ Len(ret'.out) = ret'.peer.neg
          /\ write' = IF ret'.peer.neg = 1 THEN write
                      ELSE (write + SumSeq(SubSeq(ret'.out, 1, ret'.peer.neg - 1)))
                             % Cap(Self)
     /\ ret'.op = "WriteTo" /\ ret'.peer.neg \in 1..ret'.ln =>
          /\ ret'.panic
          /\ ret'.err = "errNegativeRead"
          /\ ret'.ln = ret'.peer.neg
          /\ read' = IF ret'.peer.neg = 1 THEN read
                     ELSE (read + Len(ret'.out)) % Cap(Self)]_vars

\* C23: WriteTo into a consumer that accepts everything pushes the unread region, oldest
\* item first, and nothing when the buffer is empty; it returns the number of items
\* pushed and leaves the buffer empty: the same call made again pushes nothing.
C23_WriteToDrains ==
  [][( /\ ret'.op = "WriteTo"
       /\ ret'.peer.neg = 0
       /\ ret'.peer.room > Cap(Self) ) =>
       /\ ret'.out = model
       /\ ret'.n = Len(model)
       /\ ret'.err = "nil"
       /\ (RingWriteTo(Self, ret.peer).pushed)' = <<>>]_vars

\* the number of items the first consumer call of WriteTo is offered
FirstOffer == IF read >= write THEN Cap(Self) - read ELSE write - read

\* the number of items WriteTo offers in all
AllOffer == IF read >= write THEN Cap(Self) - read + write ELSE write - read

\* C24: when the consumer of WriteTo accepts k of the items offered, or fails, read
\* advances by k and storage is untouched, so that the items not accepted stay unread in
\* order; a consumer error is returned and stops the call before the second segment is
\* pushed; io.EOF from the consumer ends the call with a nil error.
C24_WriteToPartial ==
  [][ret'.op = "WriteTo" /\ ret'.peer.neg = 0 =>
       LET k == Len(ret'.out)
           c == ret'.peer
       IN  /\ ~ret'.panic
           /\ k = Min(c.room, AllOffer)
           /\ ret'.n = k
           /\ read' = (read + k) % Cap(Self)
           /\ items' = items
           /\ write' = write
           /\ ret'.err = IF c.room < AllOffer /\ c.short # "EOF" THEN c.short ELSE "nil"
           /\ c.room < FirstOffer /\ c.short # "nil" => ret'.ln = 1]_vars

\* the segments handed to the callback, one after the other
RECURSIVE Concat(_)
Concat(segs) == IF segs = <<>> THEN <<>> ELSE Head(segs) \o Concat(Tail(segs))

C27_OneCallPerRun ==
  [][ret'.op = "Filter.ReadFrom" =>
       /\ \A i \in 1..Len(ret'.out) : ret'.out[i] # <<>>
       /\ ( /\ Len(filter.items) = 3
            /\ filter.write = 0
            /\ ret'.ln = 3
            /\ ret'.peer.chunk = 3
            /\ ~ret'.peer.tail ) => ret'.out = <<Stream(seq, 3)>>]_vars

\* C28: when the callback fails during RingFilter.Write or RingFilter.ReadFrom, it is
\* not invoked again in that call and the call returns the callback's error.
C28_CallbackErrorSurfaces ==
  [][( /\ ret'.op \in {"Filter.Write", "Filter.ReadFrom"}
       /\ ret'.cp \in 1..Len(ret'.out) ) =>
       /\ Len(ret'.out) = ret'.cp
       /\ ret'.err = "ErrFilter"]_vars

\* C29: a RingFilter whose callback is nil returns what a RingBuffer of the same capacity
\* returns, call after call, for Write, ReadFrom, Read, Value, WriteTo, Reset, Len and
\* Cap.
C29_FilterAsRingBuffer ==
  [][/\ ret'.op = "Filter.Write" =>
          LET w == RingWrite(Self, Stream(seq, ret'.ln))
          IN  ret'.n = w.n /\ ret'.err = w.err
     /\ ret'.op = "Filter.ReadFrom" =>
          LET rf == RingReadFrom(Self, Stream(seq, ret'.ln), ret'.peer)
          IN  ret'.n = rf.n /\ ret'.err = rf.err
     /\ ret'.op = "Filter.Read" =>
          LET rd == RingRead(Self, Make(ret'.cp), ret'.ln)
              frd == FilterRead(filter, Make(ret'.cp), ret'.ln)
          IN  /\ frd.panic = rd.panic
              /\ ~rd.panic => frd.n = rd.n /\ frd.err = rd.err
                              /\ SubSeq(frd.p, 1, frd.n) = SubSeq(rd.p, 1, rd.n)
     /\ ret'.op = "Filter.Value" => ret'.out = RingValue(Self).out
     /\ ret'.op = "Filter.WriteTo" =>
          LET wt == RingWriteTo(Self, ret'.peer)
          IN  ret'.n = wt.n /\ ret'.err = wt.err /\ ret'.out = wt.pushed
     /\ ~ret'.panic => /\ FilterLen(filter') = BufLen(Self')
                       /\ Len(filter'.items) = Cap(Self')]_vars

\* C30: in a pipeline of two RingFilters of capacity N, after ReadFrom has taken an
\* input of N items or more, a Read of N items from the downstream filter returns the
\* transforms of the last N input items, in input order.
C30_PipelineKeepsLastN ==
  [][ret'.op = "Pipe.ReadFrom" /\ ret'.ln >= Len(down.items) =>
       LET N == Len(down.items)
           d == Stream(seq, ret'.ln)
           rd == FilterRead(down', Make(N), N)
       IN  /\ ~rd.panic
           /\ rd.n = N
           /\ rd.p = [i \in 1..N |-> Conv(d[Len(d) - N + i])]]_vars

\* C31: the errors of a gbufio.Writer are sticky.  Once the underlying writer has returned
\* an error, the Writer holds that error; and while it holds an error, Write, WriteItem
\* and Flush return it, take no data, make no call to the underlying writer and leave
\* the Writer as it is, until Reset.
C31_WriterErrorsAreSticky ==
  [][/\ writer'.wr.failed => writer'.err = "ErrSink"
     /\ ( /\ writer.err # "nil"
          /\ ret'.op \in {"Writer.Write", "Writer.WriteItem", "Writer.Flush"} ) =>
          /\ ret'.err = writer.err
          /\ ret'.n = 0
          /\ ret'.cp = 0
          /\ writer' = writer]_vars

\* a Write of some items on a Writer whose underlying writer had failed: it made no call
\* and returned the error
C31_Witness ==
  /\ ret.op = "Writer.Write"
  /\ ret.ln > 0
  /\ ret.cp = 0
  /\ ret.err = "ErrSink"
  /\ writer.wr.failed
  /\ writer.n > 0

\* C32: gbufio.Reader.UnreadItem unreads the item read last.  Called right after a
\* ReadItem or Read that returned an item, it succeeds and the next ReadItem returns
\* that item again; called right after Peek, Discard or UnreadItem, it returns
\* ErrInvalidUnreadItem and leaves the Reader as it is.
C32_UnreadItemRestoresLastRead ==
  [][ret'.op = "Reader.UnreadItem" =>
       /\ ( ret.op \in {"Reader.ReadItem", "Reader.Read"} /\ ret.n >= 1 ) =>
            /\ ~ret'.panic
            /\ ret'.err = "nil"
            /\ ReaderReadItem(reader').err = "nil"
            /\ ReaderReadItem(reader').item = ret.out[ret.n]
       /\ ret.op \in {"Reader.Peek", "Reader.Discard", "Reader.UnreadItem"} =>
            /\ ~ret'.panic
            /\ ret'.err = "ErrInvalidUnreadItem"
            /\ reader' = reader]_vars

\* C33: a Write of fewer than N items evicts exactly when its span reaches the read
\* cursor: when the unread count before it plus the length of the input is N or more,
\* read equals write afterwards and Len() is N; otherwise read is unchanged and Len() is
\* the unread count before plus the length of the input.
C33_WriteEvictsWithinCapacity ==
  [][ret'.op = "Write" /\ ret'.ln < Cap(Self) =>
       IF Len(model) + ret'.ln >= Cap(Self)
       THEN read' = write' /\ BufLen(Self') = Cap(Self)
       ELSE read' = read /\ BufLen(Self') = Len(model) + ret'.ln]_vars

\* C34: Read and ReadItem lower Len() by the number of items they return.
C34_ConsumingLowersLen ==
  [][ret'.op \in {"Read", "ReadItem"} /\ ~ret'.panic =>
       BufLen(Self') = BufLen(Self) - ret'.n]_vars

\* C35: on a full buffer (N unread items, read equal to write), Write, WriteItem and
\* ReadFrom leave read equal to write and the buffer full.
C35_FullStaysFull ==
  [][( /\ ret'.op \in {"Write", "WriteItem", "ReadFrom"}
       /\ Len(model) = Cap(Self)
       /\ read = write ) =>
       read' = write' /\ BufLen(Self') = Cap(Self)]_vars

\* C36: the read and write cursors of a RingBuffer and of a RingFilter of capacity N
\* are in 0..N-1 after every call.
C36_CursorsInRange ==
  ~ret.panic =>
    /\ write \in 0..(Cap(Self) - 1)
    /\ read \in 0..(Cap(Self) - 1)
    /\ filter.write \in 0..(Len(filter.items) - 1)
    /\ filter.read \in 0..(Len(filter.items) - 1)

\* C37: every segment RingFilter.Write hands to the callback has at most N items and is
\* a run of consecutive slots of the storage as the call leaves it.
C37_SegmentsAreStorage ==
  [][ret'.op = "Filter.Write" =>
       \A i \in 1..Len(ret'.out) :
         LET seg == ret'.out[i]
             N == Len(filter'.items)
         IN  /\ Len(seg) <= N
             /\ \E lo \in 0..(N - Len(seg)) : seg = Slice(filter'.items, lo, lo + Len(seg))]_vars

\* the lengths of the destinations ReadFrom offers the producer, call after call: w is the
\* write cursor, N the capacity and nums the counts the producer reported
RECURSIVE Offered(_, _, _)
Offered(w, N, nums) ==
  IF nums = <<>>
  THEN <<>>
  ELSE <<N - w>> \o Offered(GoMod(w + Head(nums), N), N, Tail(nums))

\* C38: ReadFrom offers the producer a destination of one slot or more on every call,
\* from every state, and returns.
C38_ReadFromOffersRoom ==
  [][ret'.op = "ReadFrom" =>
       /\ ~ret'.panic
       /\ \A i \in 1..Len(ret'.out) : Offered(write, Cap(Self), ret'.out)[i] > 0]_vars

\* C39: Read, ReadItem, Value and WriteTo never index or slice out of range, whatever
\* the destination's length and however few items the consumer accepts.
C39_NoOutOfRange ==
  ret.op \in {"Read", "ReadItem", "Value", "WriteTo"} => ~ret.panic

\* C40: WriteItem(x) leaves the buffer as Write of the one-item slice [x] does: Len() is
\* the same and every later Read returns the same.
C40_WriteItemAsWrite ==
  [][ret'.op = "WriteItem" =>
       LET w == RingWrite(Self, Stream(seq, 1)).buf
       IN  /\ BufLen(Self') = BufLen(w)
           /\ SameReads(Self', w)]_vars

=============================================================================
